---- MODULE Spec2Model ----
(***************************************************************************)
(* A model of src/components.py: LSTMCell (per-gate input/recurrent        *)
(* dropout masks and one recurrence step) and LSTM (the packed-sequence    *)
(* layer that drives one or two cells through                              *)
(* torch.nn._functions.rnn.VariableRecurrent / VariableRecurrentReverse /  *)
(* StackedRNN).                                                            *)
(*                                                                         *)
(* Tensors are symbolic.  A row of the packed input is its packed index;   *)
(* a row of the recurrent state is the row of the initial state it started *)
(* from together with the list of cell steps applied to it, each step      *)
(* naming the input row and the dropout-mask rows it was multiplied with.  *)
(* Indices of batch elements, packed rows and mask rows are 0-based as in  *)
(* the Python code; TLA+ sequences are 1-based, so position p of a         *)
(* sequence of rows holds batch element p - 1.  Probabilities are integer  *)
(* percentages (dropout = 50 is 0.5).                                      *)
(***************************************************************************)
EXTENDS Integers, Sequences, FiniteSets, TLC

\* ---------------------------------------------------------------- bounds
MaxBatch == 3
MaxT == 3
NumSeeds == 2

\* ------------------------------------------------------ program constants
Gates == 4

\* ------------------------------------------------------------ input sets
InputSizes == {2}
HiddenSizes == {1, 2}
\* dropout as a percentage: 0, a valid 0.5, and 1.5, which lies outside [0,1)
Dropouts == {0, 50, 150}
Seeds == 0..(NumSeeds - 1)

Min(a, b) == IF a < b THEN a ELSE b
Max(a, b) == IF a > b THEN a ELSE b

RECURSIVE SumSeq(_)
SumSeq(s) == IF s = <<>> THEN 0 ELSE Head(s) + SumSeq(Tail(s))

RECURSIVE Flatten(_)
Flatten(ss) == IF ss = <<>> THEN <<>> ELSE Head(ss) \o Flatten(Tail(ss))

Reverse(s) == [i \in 1..Len(s) |-> s[Len(s) + 1 - i]]

\* The per-step counts of a packed batch: non-increasing, each at least 1.
BatchSizes ==
  { bs \in UNION { [1..n -> 1..MaxBatch] : n \in 1..MaxT } :
      \A i \in 1..(Len(bs) - 1) : bs[i] >= bs[i + 1] }

\* What LSTM.forward may be handed: a PackedSequence with its per-step counts,
\* or a padded tensor of n steps by b sequences (batch_sizes then holds the
\* counts its packing would have).
Inputs ==
  { [packed |-> TRUE, batch_sizes |-> bs] : bs \in BatchSizes } \cup
  { [packed |-> FALSE, batch_sizes |-> [i \in 1..n |-> b]] :
      n \in 1..MaxT, b \in 1..MaxBatch }

VARIABLES cfg, training, weights, masks, pc, input, rec, lastStep, result

vars == <<cfg, training, weights, masks, pc, input, rec, lastStep, result>>

\* ------------------------------------------------------------- LSTMCell
NoMask == [kind |-> "none"]

\* [v] * 4 : a Python list of one scalar per gate
ListMask(v) == [kind |-> "list", vals |-> [g \in 1..Gates |-> v]]

\* The pseudo-random uniform draw (a percentage) behind element (g, b, f) of
\* the stream-th tensor sampled from generator state seed.
Uniform(seed, stream, g, b, f) ==
  ((seed * 53 + stream * 29 + g * 17 + b * 11 + f * 7) * 31) % 100

\* torch.bernoulli(torch.Tensor(4, batch_size, feat).fill_(p)): 1 where the
\* draw falls below p, else 0.
Bernoulli(p, batch_size, feat, seed, stream) ==
  [kind |-> "tensor", batch |-> batch_size, feat |-> feat,
   vals |-> [e \in (1..Gates) \X (0..(batch_size - 1)) \X (0..(feat - 1)) |->
               IF Uniform(seed, stream, e[1], e[2], e[3]) < p THEN 1 ELSE 0]]

\* torch.bernoulli rejects a probability outside [0, 1].
BernoulliAccepts(p) == p >= 0 /\ p <= 100

NumDirections(c) == IF c.bidirectional THEN 2 ELSE 1

\* (mutant) the training masks are filled with the keep probability and never
\* sampled
set_dropout_masks_unsampled(c, train, batch_size, seed, drawn) ==
  IF c.dropout # 0
  THEN IF train
       THEN IF BernoulliAccepts(100 - c.dropout)
            THEN [ok |-> TRUE,
                  input_dropout_mask |->
                    [kind |-> "tensor", batch |-> batch_size, feat |-> c.input_size,
                     vals |-> [e \in (1..Gates) \X (0..(batch_size - 1))
                                       \X (0..(c.input_size - 1)) |-> 100 - c.dropout]],
                  h_dropout_mask |->
                    [kind |-> "tensor", batch |-> batch_size, feat |-> c.hidden_size,
                     vals |-> [e \in (1..Gates) \X (0..(batch_size - 1))
                                       \X (0..(c.hidden_size - 1)) |-> 100 - c.dropout]]]
            ELSE [ok |-> FALSE, input_dropout_mask |-> NoMask, h_dropout_mask |-> NoMask]
       ELSE [ok |-> TRUE,
             input_dropout_mask |-> ListMask(100 - c.dropout),
             h_dropout_mask |-> ListMask(100 - c.dropout)]
  ELSE [ok |-> TRUE, input_dropout_mask |-> ListMask(100),
        h_dropout_mask |-> ListMask(100)]

\* LSTMCell.set_dropout_masks: ok = FALSE when the sampling raises.  The
\* generator is in state seed and has produced `drawn` tensors since.
set_dropout_masks(c, train, batch_size, seed, drawn) ==
  IF c.dropout # 0
  THEN IF train
       THEN IF BernoulliAccepts(100 - c.dropout)
            THEN [ok |-> TRUE,
                  input_dropout_mask |->
                    Bernoulli(100 - c.dropout, batch_size, c.input_size, seed, drawn),
                  h_dropout_mask |->
                    Bernoulli(100 - c.dropout, batch_size, c.hidden_size, seed, drawn + 1)]
            ELSE [ok |-> FALSE, input_dropout_mask |-> NoMask, h_dropout_mask |-> NoMask]
       ELSE [ok |-> TRUE,
             input_dropout_mask |-> ListMask(100 - c.dropout),
             h_dropout_mask |-> ListMask(100 - c.dropout)]
  ELSE [ok |-> TRUE, input_dropout_mask |-> ListMask(100),
        h_dropout_mask |-> ListMask(100)]

MaskPair(r) ==
  [input_dropout_mask |-> r.input_dropout_mask, h_dropout_mask |-> r.h_dropout_mask]

\* get_mask_slice: the 0-based mask rows that mask[idx][-width:] selects of a
\* tensor mask, in order; a list mask yields its scalar (no rows).
get_mask_slice(mask, width) ==
  IF mask.kind = "list" THEN <<>>
  ELSE [i \in 1..Min(width, mask.batch) |-> Max(mask.batch - width, 0) + i - 1]

\* x * get_mask_slice(mask, idx) for x of `width` rows: the mask row each row
\* of x is multiplied with (-1: the scalar of a list mask).  A slice of one
\* row against a wider x broadcasts where the tensor library broadcasts
\* (bcast) and is a size mismatch otherwise, as is every other row count.
MaskedRows(mask, width, bcast) ==
  LET sl == get_mask_slice(mask, width) IN
  IF mask.kind = "list" THEN [ok |-> TRUE, rows |-> [i \in 1..width |-> -1]]
  ELSE IF Len(sl) = width THEN [ok |-> TRUE, rows |-> sl]
  ELSE IF Len(sl) = 1 /\ bcast THEN [ok |-> TRUE, rows |-> [i \in 1..width |-> sl[1]]]
  ELSE [ok |-> FALSE, rows |-> <<>>]

\* LSTMCell.forward on a cell whose masks exist: the new (h_t, c_t) rows.
\* xrows are the packed indices of the input rows, hidden the rows of
\* (h_tm1, c_tm1).
LSTMCell_forward(j, mp, xrows, hidden, bcast) ==
  LET width == Len(xrows)
      hm == MaskedRows(mp.h_dropout_mask, width, bcast)
      im == MaskedRows(mp.input_dropout_mask, width, bcast)
  IN IF hm.ok /\ im.ok /\ Len(hidden) = width
     THEN [ok |-> TRUE,
           rows |-> [i \in 1..width |->
                       [h0 |-> hidden[i].h0, c0 |-> hidden[i].c0,
                        steps |-> Append(hidden[i].steps,
                                         [cell |-> j, x |-> xrows[i],
                                          im |-> im.rows[i], hm |-> hm.rows[i]])]]]
     ELSE [ok |-> FALSE, rows |-> <<>>]

\* ----------------------------------------------------------------- LSTM
\* No call is in progress.  A call made right after LSTM.forward returned or
\* raised behaves as one made after train(self.training), which changes
\* nothing the calls read.
Returned == pc \in {"idle", "done", "raised", "cell_returned"}
Ready == pc = "idle"

NoInput == [packed |-> FALSE, batch_sizes |-> <<>>, hidden_state |-> "None"]
CallInput(inp, hs) ==
  [packed |-> inp.packed, batch_sizes |-> inp.batch_sizes, hidden_state |-> hs]
NoStep == [cell |-> 0, width |-> 0, kind |-> "none", batch |-> 0, ok |-> TRUE]
NoResult == [kind |-> "none"]
Raised(exc) == [kind |-> "error", exc |-> exc]
NoRec == <<>>

Cells == 1..NumDirections(cfg)

\* LSTMCell.reset_parameters: orthogonal matrices (opaque, per cell), forget
\* bias 1, the other biases 0.
reset_parameters(j) ==
  [W |-> <<"orthogonal", j>>, U |-> <<"orthogonal", j>>,
   b_i |-> 0, b_f |-> 1, b_c |-> 0, b_o |-> 0]

\* LSTM.__init__ with LSTMCell.__init__ for each direction: the arguments are
\* stored as given, every cell starts without masks, and a fresh nn.Module is
\* in training mode.
Init ==
  /\ cfg \in [input_size : InputSizes, hidden_size : HiddenSizes,
              bidirectional : BOOLEAN, dropout : Dropouts]
  /\ training = TRUE
  /\ weights = [j \in 1..NumDirections(cfg) |-> reset_parameters(j)]
  /\ masks = [j \in 1..NumDirections(cfg) |->
                [input_dropout_mask |-> NoMask, h_dropout_mask |-> NoMask]]
  /\ pc = "idle"
  /\ input = NoInput
  /\ rec = NoRec
  /\ lastStep = NoStep
  /\ result = NoResult

\* nn.Module.train(mode) / eval(): the flag read by set_dropout_masks.
train(mode) ==
  /\ Returned
  /\ training' = mode
  /\ pc' = "idle"
  /\ input' = NoInput
  /\ rec' = NoRec
  /\ lastStep' = NoStep
  /\ result' = NoResult
  /\ UNCHANGED <<cfg, weights, masks>>

\* (mutant) every input is taken for a packed one
is_packed_always(inp) == TRUE

\* is_packed = isinstance(input, PackedSequence)
is_packed(inp) == inp.packed

\* (mutant) only the forward cell's masks are refreshed
RefreshedCells_first == {1}

\* The cells whose masks LSTM.forward refreshes: for cell in self.lstm_cells.
RefreshedCells == Cells

\* LSTM.forward up to the mask refresh.  An input that is not a
\* PackedSequence raises NotImplementedError; otherwise every cell's masks
\* are set for max_batch_size = batch_sizes[0].  A sampling that raises does
\* so in the first cell, before any mask is assigned.
LSTM_forward ==
  /\ Ready
  /\ \E inp \in Inputs, hs \in {"None", "given"}, seed \in Seeds :
       /\ input' = CallInput(inp, hs)
       /\ IF ~is_packed(inp)
          THEN /\ pc' = "raised"
               /\ result' = Raised("NotImplementedError")
               /\ UNCHANGED masks
          ELSE LET max_batch_size == inp.batch_sizes[1]
                   fresh == [j \in Cells |->
                               set_dropout_masks(cfg, training, max_batch_size, seed,
                                                 2 * (j - 1))]
               IN IF \A j \in Cells : fresh[j].ok
                  THEN /\ masks' = [j \in Cells |->
                                      IF j \in RefreshedCells
                                      THEN MaskPair(fresh[j]) ELSE masks[j]]
                       /\ pc' = "masks_refreshed"
                       /\ result' = NoResult
                  ELSE /\ UNCHANGED masks
                       /\ pc' = "raised"
                       /\ result' = Raised("RuntimeError")
  /\ rec' = NoRec
  /\ lastStep' = NoStep
  /\ UNCHANGED <<cfg, training, weights>>

\* Row b of direction j of the initial state: zeros when hidden_state is
\* None (hx, used for both h and c), the caller's rows otherwise.
InitialRow(hs, j, b) ==
  IF hs = "None"
  THEN [h0 |-> <<"zero">>, c0 |-> <<"zero">>, steps |-> <<>>]
  ELSE [h0 |-> <<"h0", j, b>>, c0 |-> <<"c0", j, b>>, steps |-> <<>>]

\* hidden[l] of StackedRNN: the (h, c) rows of direction j, max_batch_size of
\* them.
InitialHidden(hs, j, max_batch_size) ==
  [p \in 1..max_batch_size |-> InitialRow(hs, j, p - 1)]

\* The locals of VariableRecurrent.forward before its loop.
VariableRecurrent_start(bs, initial) ==
  [hidden |-> initial, initial |-> initial, hiddens |-> <<>>, output |-> <<>>,
   input_offset |-> 0, last_batch_size |-> bs[1], k |-> 0]

\* The locals of VariableRecurrentReverse.forward before its loop.
VariableRecurrentReverse_start(bs, initial) ==
  [hidden |-> SubSeq(initial, 1, bs[Len(bs)]), initial |-> initial,
   hiddens |-> <<>>, output |-> <<>>,
   input_offset |-> SumSeq(bs), last_batch_size |-> bs[Len(bs)], k |-> 0]

\* (mutant) both directions' passes run on the forward direction's state
Slot_shared(j) == 1

\* The state slot hidden[l] and the cell that direction j's pass works on:
\* l = i * num_directions + j with one layer; self.cell, self.cell_reverse.
Slot(j) == j
CellOf(j) == j

\* LSTM.forward from the initial state to the call of func: hidden_state
\* defaults to zeros, and one recurrence per direction is set up.
\* StackedRNN asserts len(weight) == total_layers; the call passes
\* weight=[[], []], so with one direction the outcome depends on whether the
\* installed StackedRNN carries that assertion.
Dispatch ==
  /\ pc = "masks_refreshed"
  /\ \E asserts \in BOOLEAN :
       IF asserts /\ NumDirections(cfg) # 2
       THEN /\ pc' = "raised"
            /\ result' = Raised("AssertionError")
            /\ rec' = NoRec
       ELSE /\ pc' = "stepping"
            /\ result' = NoResult
            /\ rec' = [j \in Cells |->
                         LET initial == InitialHidden(input.hidden_state, j,
                                                      input.batch_sizes[1])
                         IN IF j = 1
                            THEN VariableRecurrent_start(input.batch_sizes, initial)
                            ELSE VariableRecurrentReverse_start(input.batch_sizes, initial)]
  /\ UNCHANGED <<cfg, training, weights, masks, input, lastStep>>

StepInfo(j, width, mp, ok) ==
  [cell |-> j, width |-> width, kind |-> mp.h_dropout_mask.kind,
   batch |-> IF mp.h_dropout_mask.kind = "tensor" THEN mp.h_dropout_mask.batch ELSE 0,
   ok |-> ok]

\* input[from : from + n], as packed row indices
PackedRows(from, n) == [i \in 1..n |-> from + i - 1]

\* (mutant) the finished rows are taken off the head of hidden, not its tail
VariableRecurrent_step_head(s, bs, j, mp) ==
  LET batch_size == bs[s.k + 1]
      step_input == PackedRows(s.input_offset, batch_size)
      dec == s.last_batch_size - batch_size
      kept == IF dec > 0 THEN SubSeq(s.hidden, dec + 1, Len(s.hidden)) ELSE s.hidden
      cut == IF dec > 0 THEN Append(s.hiddens, SubSeq(s.hidden, 1, dec))
             ELSE s.hiddens
      out == LSTMCell_forward(j, mp, step_input, kept, TRUE)
  IN [hidden |-> out.rows, initial |-> s.initial, hiddens |-> cut,
      output |-> Append(s.output, out.rows),
      input_offset |-> s.input_offset + batch_size,
      last_batch_size |-> batch_size, k |-> s.k + 1]

\* One iteration of VariableRecurrent's loop: the rows of finished elements
\* are cut off the tail of hidden and kept in hiddens, the rest is stepped.
VariableRecurrent_step(s, bs, j, mp) ==
  LET batch_size == bs[s.k + 1]
      step_input == PackedRows(s.input_offset, batch_size)
      dec == s.last_batch_size - batch_size
      kept == IF dec > 0 THEN SubSeq(s.hidden, 1, Len(s.hidden) - dec) ELSE s.hidden
      cut == IF dec > 0
             THEN Append(s.hiddens,
                         SubSeq(s.hidden, Len(s.hidden) - dec + 1, Len(s.hidden)))
             ELSE s.hiddens
      out == LSTMCell_forward(j, mp, step_input, kept, TRUE)
  IN [hidden |-> out.rows, initial |-> s.initial, hiddens |-> cut,
      output |-> Append(s.output, out.rows),
      input_offset |-> s.input_offset + batch_size,
      last_batch_size |-> batch_size, k |-> s.k + 1]

\* (mutant) the rows of starting elements are taken from the head of the
\* initial state
VariableRecurrentReverse_step_head(s, bs, j, mp) ==
  LET batch_size == bs[Len(bs) - s.k]
      inc == batch_size - s.last_batch_size
      grown == IF inc > 0 THEN s.hidden \o SubSeq(s.initial, 1, inc) ELSE s.hidden
      step_input == PackedRows(s.input_offset - batch_size, batch_size)
      out == LSTMCell_forward(j, mp, step_input, grown, TRUE)
  IN [hidden |-> out.rows, initial |-> s.initial, hiddens |-> s.hiddens,
      output |-> Append(s.output, out.rows),
      input_offset |-> s.input_offset - batch_size,
      last_batch_size |-> batch_size, k |-> s.k + 1]

\* One iteration of VariableRecurrentReverse's loop, over reversed(batch_sizes):
\* the rows of elements that start at this step are appended from the initial
\* state.
VariableRecurrentReverse_step(s, bs, j, mp) ==
  LET batch_size == bs[Len(bs) - s.k]
      inc == batch_size - s.last_batch_size
      grown == IF inc > 0
               THEN s.hidden \o SubSeq(s.initial, s.last_batch_size + 1, batch_size)
               ELSE s.hidden
      step_input == PackedRows(s.input_offset - batch_size, batch_size)
      out == LSTMCell_forward(j, mp, step_input, grown, TRUE)
  IN [hidden |-> out.rows, initial |-> s.initial, hiddens |-> s.hiddens,
      output |-> Append(s.output, out.rows),
      input_offset |-> s.input_offset - batch_size,
      last_batch_size |-> batch_size, k |-> s.k + 1]

T == Len(input.batch_sizes)

\* The forward direction's next time step: rec_factory(lambda x, h: self.cell(x, h)).
StepForward ==
  /\ pc = "stepping"
  /\ rec[Slot(1)].k < T
  /\ rec' = [rec EXCEPT ![Slot(1)] =
               VariableRecurrent_step(rec[Slot(1)], input.batch_sizes, CellOf(1),
                                      masks[CellOf(1)])]
  /\ lastStep' = StepInfo(CellOf(1), input.batch_sizes[rec[Slot(1)].k + 1],
                          masks[CellOf(1)], TRUE)
  /\ UNCHANGED <<cfg, training, weights, masks, pc, input, result>>

ReverseStepBody ==
  /\ pc = "stepping"
  /\ cfg.bidirectional
  /\ rec[Slot(2)].k < T
  /\ rec' = [rec EXCEPT ![Slot(2)] =
               VariableRecurrentReverse_step(rec[Slot(2)], input.batch_sizes,
                                             CellOf(2), masks[CellOf(2)])]
  /\ lastStep' = StepInfo(CellOf(2), input.batch_sizes[T - rec[Slot(2)].k],
                          masks[CellOf(2)], TRUE)
  /\ UNCHANGED <<cfg, training, weights, masks, pc, input, result>>

\* The reverse direction's next time step.  StackedRNN runs its inners one
\* after the other, so the reverse pass starts when the forward pass is over.
StepReverse ==
  /\ pc = "stepping"
  /\ rec[Slot(1)].k = T
  /\ ReverseStepBody

\* VariableRecurrent after its loop: hiddens.append(hidden); hiddens.reverse();
\* cat; the per-step outputs are concatenated in time order.
VariableRecurrent_finish(s) ==
  [hy |-> Flatten(Reverse(Append(s.hiddens, s.hidden))),
   output |-> Flatten(s.output)]

\* VariableRecurrentReverse after its loop: output.reverse(); cat.
VariableRecurrentReverse_finish(s) ==
  [hy |-> s.hidden, output |-> Flatten(Reverse(s.output))]

\* A block of hidden_size features: the h or the c part of a state row.
Block(part, row) == [w |-> cfg.hidden_size, part |-> part, v |-> row]

\* (mutant) only the first direction's output is passed on
StackedRNN_collect_first(fin) ==
  [output |-> [p \in 1..Len(fin[1].output) |-> <<Block("h", fin[1].output[p])>>],
   next_hidden |->
     <<[j \in 1..Len(fin) |-> [p \in 1..Len(fin[j].hy) |-> Block("h", fin[j].hy[p])]],
       [j \in 1..Len(fin) |-> [p \in 1..Len(fin[j].hy) |-> Block("c", fin[j].hy[p])]]>>]

\* StackedRNN after its inners: the outputs are concatenated along the
\* feature axis, the final states stacked per direction into (h_n, c_n).
StackedRNN_collect(fin) ==
  [output |-> [p \in 1..Len(fin[1].output) |->
                 [j \in 1..Len(fin) |-> Block("h", fin[j].output[p])]],
   next_hidden |->
     <<[j \in 1..Len(fin) |-> [p \in 1..Len(fin[j].hy) |-> Block("h", fin[j].hy[p])]],
       [j \in 1..Len(fin) |-> [p \in 1..Len(fin[j].hy) |-> Block("c", fin[j].hy[p])]]>>]

\* next_hidden, output = func(input, hidden_state, weight=[[], []])
Reassemble ==
  /\ pc = "stepping"
  /\ \A j \in Cells : rec[j].k = T
  /\ LET fin == [j \in Cells |->
                   IF j = 1 THEN VariableRecurrent_finish(rec[Slot(j)])
                   ELSE VariableRecurrentReverse_finish(rec[Slot(j)])]
         got == StackedRNN_collect(fin)
     IN result' = [kind |-> "local", output |-> got.output,
                   next_hidden |-> got.next_hidden]
  /\ pc' = "reassembled"
  /\ UNCHANGED <<cfg, training, weights, masks, input, rec, lastStep>>

\* output = PackedSequence(output, batch_sizes); return output, next_hidden
Return ==
  /\ pc = "reassembled"
  /\ result' = [kind |-> "returned",
                output |-> [data |-> result.output, batch_sizes |-> input.batch_sizes],
                next_hidden |-> result.next_hidden]
  /\ pc' = "done"
  /\ UNCHANGED <<cfg, training, weights, masks, input, rec, lastStep>>

\* A direct call of LSTMCell.forward on cell j with an input of `width` rows,
\* outside any LSTM.forward: the masks are set only if there are none yet.
CellCall ==
  /\ Ready
  /\ \E j \in Cells, width \in 1..MaxBatch, seed \in Seeds, bcast \in BOOLEAN :
       LET lazy == masks[j].input_dropout_mask.kind = "none"
           fresh == set_dropout_masks(cfg, training, width, seed, 0)
           mp == IF lazy THEN MaskPair(fresh) ELSE masks[j]
           out == LSTMCell_forward(j, mp, PackedRows(0, width),
                                   InitialHidden("given", j, width), bcast)
       IN IF lazy /\ ~fresh.ok
          THEN /\ UNCHANGED masks
               /\ lastStep' = NoStep
               /\ result' = Raised("RuntimeError")
          ELSE /\ masks' = [masks EXCEPT ![j] = mp]
               /\ lastStep' = StepInfo(j, width, mp, out.ok)
               /\ result' = IF out.ok THEN NoResult ELSE Raised("RuntimeError")
  /\ pc' = "cell_returned"
  /\ input' = NoInput
  /\ rec' = NoRec
  /\ UNCHANGED <<cfg, training, weights>>

Next ==
  \/ \E mode \in BOOLEAN : train(mode)
  \/ LSTM_forward
  \/ Dispatch
  \/ StepForward
  \/ StepReverse
  \/ Reassemble
  \/ Return
  \/ CellCall

Spec == Init /\ [][Next]_vars

\* The two directions' passes interleaved step by step, each in its own time
\* order.
NextAnyOrder ==
  \/ \E mode \in BOOLEAN : train(mode)
  \/ LSTM_forward
  \/ Dispatch
  \/ StepForward
  \/ ReverseStepBody
  \/ Reassemble
  \/ Return
  \/ CellCall

SpecAnyOrder == Init /\ [][NextAnyOrder]_vars

\* --------------------------------------------------------------- claims
InCall == pc \in {"masks_refreshed", "stepping", "reassembled"}
Stepped == pc \in {"stepping", "reassembled", "done"}

\* Every state row direction j holds after its steps so far, running or put
\* aside.
AllRows(s) == s.hidden \o Flatten(s.hiddens)

\* C1: in training mode with dropout > 0, within one LSTM.forward every
\* sample is multiplied by the same input-side and recurrent-side mask rows
\* at every time step at which it is active, also when the active batch
\* width shrinks between the steps.
C1_SameMaskRowsAtEveryStep ==
  (Stepped /\ training /\ cfg.dropout # 0) =>
    \A j \in Cells :
      \A p \in 1..Len(AllRows(rec[j])) :
        LET steps == AllRows(rec[j])[p].steps
        IN \A a, b \in 1..Len(steps) :
             steps[a].hm = steps[b].hm /\ steps[a].im = steps[b].im

\* C3: LSTM.forward called with an input that is not a packed sequence
\* raises NotImplementedError at once: no mask is refreshed, no cell is
\* stepped, nothing is returned, and every weight and bias is unchanged.
C3_UnpackedInputRaises ==
  [][(Ready /\ pc' \in {"masks_refreshed", "raised"} /\ ~input'.packed) =>
       /\ pc' = "raised"
       /\ result' = Raised("NotImplementedError")
       /\ masks' = masks
       /\ weights' = weights
       /\ rec' = NoRec
       /\ lastStep' = NoStep]_vars

\* C3 witness: an unpacked call has raised on a layer whose masks exist.
C3_Witness ==
  /\ pc = "raised"
  /\ ~input.packed
  /\ result = Raised("NotImplementedError")
  /\ \A j \in Cells : masks[j].h_dropout_mask.kind = "tensor"

\* C4: in training mode with dropout > 0 every cell step, in LSTM.forward or
\* in a direct LSTMCell.forward call, runs with masks regenerated for its
\* width, so with masks that have at least as many rows as the step's input.
C4_MasksCoverEveryStep ==
  (training /\ cfg.dropout # 0 /\ lastStep.kind = "tensor") =>
    lastStep.batch >= lastStep.width

\* C6: construction validates the configuration, so no cell is ever stepped
\* with a non-positive size or a dropout probability outside [0, 1).
C6_SteppedConfigIsValid ==
  lastStep.cell # 0 =>
    /\ cfg.input_size > 0
    /\ cfg.hidden_size > 0
    /\ cfg.dropout >= 0
    /\ cfg.dropout < 100

\* The number of time steps at which batch element b is active: its length.
ElemLen(bs, b) == Cardinality({t \in 1..Len(bs) : bs[t] > b})

\* The packed index of the first row of (0-based) time step t.
Offset(bs, t) == SumSeq(SubSeq(bs, 1, t))

\* The packed indices of the input rows a state row was stepped with.
Xs(row) == [i \in 1..Len(row.steps) |-> row.steps[i].x]

StepsOfCell(row, j) == \A i \in 1..Len(row.steps) : row.steps[i].cell = j

\* C2: in the forward direction step t steps exactly the first
\* batch_sizes[t] rows of the running state: after k steps the state row of
\* every batch element b started from b's own initial row and has been
\* stepped by the forward cell with b's input rows of time steps
\* 0 .. min(k, L_b) - 1 and no others, so the returned final (h, c) row of b
\* is its state right after step L_b - 1.
C2_ForwardStepsActiveRowsOnly ==
  Stepped =>
    LET bs == input.batch_sizes
        s == rec[1]
        rows == VariableRecurrent_finish(s).hy
    IN /\ Len(rows) = bs[1]
       /\ Len(s.hidden) = (IF s.k = 0 THEN bs[1] ELSE bs[s.k])
       /\ \A b \in 0..(bs[1] - 1) :
            /\ rows[b + 1].h0 = InitialRow(input.hidden_state, 1, b).h0
            /\ rows[b + 1].c0 = InitialRow(input.hidden_state, 1, b).c0
            /\ StepsOfCell(rows[b + 1], 1)
            /\ Xs(rows[b + 1]) =
                 [i \in 1..Min(s.k, ElemLen(bs, b)) |-> Offset(bs, i - 1) + b]
       /\ (pc = "stepping" /\ lastStep.cell = 1) => lastStep.width = bs[s.k]
       /\ result.kind = "returned" =>
            \A b \in 0..(bs[1] - 1) :
              /\ result.next_hidden[1][1][b + 1] = Block("h", rows[b + 1])
              /\ result.next_hidden[2][1][b + 1] = Block("c", rows[b + 1])
              /\ Len(rows[b + 1].steps) = ElemLen(bs, b)

\* C2 witness: a call over lengths [3,3,1] with a caller's initial state has
\* returned.
C2_Witness ==
  /\ pc = "done"
  /\ input.batch_sizes = <<3, 2, 2>>
  /\ input.hidden_state = "given"
  /\ Len(result.next_hidden[1][1][3].v.steps) = 1
  /\ Len(result.next_hidden[1][1][1].v.steps) = 3

\* The width of an output row: the sum of the widths of its blocks.
RowWidth(row) == SumSeq([i \in 1..Len(row) |-> row[i].w])

\* C5: a successful LSTM.forward returns a packed output with the input's
\* per-step counts and sum(batch_sizes) rows, each hidden_size wide
\* (2 * hidden_size when bidirectional: the forward features of a time step
\* and batch element followed by the reverse features of the same), and a
\* final state (h_n, c_n), each num_directions x batch_sizes[0] x hidden_size.
C5_OutputShape ==
  result.kind = "returned" =>
    LET bs == input.batch_sizes
        out == result.output
        nd == NumDirections(cfg)
    IN /\ out.batch_sizes = bs
       /\ Len(out.data) = SumSeq(bs)
       /\ \A p \in 1..Len(out.data) :
            /\ RowWidth(out.data[p]) = nd * cfg.hidden_size
            /\ Len(out.data[p]) = nd
            /\ \A j \in 1..Len(out.data[p]) :
                 LET blk == out.data[p][j]
                 IN /\ blk.part = "h"
                    /\ blk.v.steps # <<>>
                    /\ blk.v.steps[Len(blk.v.steps)].x = p - 1
                    /\ blk.v.steps[Len(blk.v.steps)].cell = j
       /\ Len(result.next_hidden) = 2
       /\ \A i \in 1..2 :
            /\ Len(result.next_hidden[i]) = nd
            /\ \A j \in 1..nd :
                 /\ Len(result.next_hidden[i][j]) = bs[1]
                 /\ \A p \in 1..bs[1] :
                      /\ result.next_hidden[i][j][p].w = cfg.hidden_size
                      /\ result.next_hidden[i][j][p].part = (IF i = 1 THEN "h" ELSE "c")

\* C5 witness: a bidirectional call over a shrinking batch has returned.
C5_Witness ==
  /\ result.kind = "returned"
  /\ cfg.bidirectional
  /\ cfg.hidden_size = 2
  /\ input.batch_sizes = <<3, 2, 1>>
  /\ RowWidth(result.output.data[6]) = 4

\* The masks set_dropout_masks is to leave behind for a batch of n rows.
MaskPolicy(mp, n) ==
  LET im == mp.input_dropout_mask
      hm == mp.h_dropout_mask
      Sampled(m, feat) ==
        /\ m.kind = "tensor"
        /\ DOMAIN m.vals = (1..Gates) \X (0..(n - 1)) \X (0..(feat - 1))
        /\ \A e \in DOMAIN m.vals : m.vals[e] \in {0, 1}
      Scalar(m, v) ==
        /\ m.kind = "list"
        /\ DOMAIN m.vals = 1..Gates
        /\ \A g \in DOMAIN m.vals : m.vals[g] = v
  IN IF cfg.dropout = 0 THEN Scalar(im, 100) /\ Scalar(hm, 100)
     ELSE IF training
          THEN Sampled(im, cfg.input_size) /\ Sampled(hm, cfg.hidden_size)
          ELSE Scalar(im, 100 - cfg.dropout) /\ Scalar(hm, 100 - cfg.dropout)

\* C7: whenever a cell's masks are set, and so at every cell step inside
\* LSTM.forward, they follow the mode policy: the scalar 1.0 per gate when
\* dropout is 0; tensors of 4 gates x batch_size x feature_size with every
\* element 0 or 1 in training mode with dropout > 0; the scalar 1 - dropout
\* per gate outside training mode with dropout > 0.
C7_MasksFollowModePolicy ==
  [][/\ \A j \in Cells :
          masks'[j] # masks[j] =>
            \E n \in 1..MaxBatch : MaskPolicy(masks[j], n)'
     /\ pc' = "stepping" =>
          \A j \in Cells : MaskPolicy(masks[j], input.batch_sizes[1])']_vars

\* C7 witness: a cell step of a training-mode call with dropout 0.5 has run
\* on sampled masks that hold a 0 and a 1.
C7_Witness ==
  /\ pc = "stepping"
  /\ training
  /\ cfg.dropout = 50
  /\ lastStep.cell = 1
  /\ lastStep.kind = "tensor"
  /\ \E e1, e2 \in DOMAIN masks[1].h_dropout_mask.vals :
       masks[1].h_dropout_mask.vals[e1] = 0 /\ masks[1].h_dropout_mask.vals[e2] = 1

\* C8: the reverse direction runs the second cell over the time steps
\* T-1 .. 0.  After k steps its running state holds the rows of the elements
\* active at the last step done; the row of element b started from b's own
\* row of the initial reverse state and has been stepped by the reverse cell
\* with b's input rows of time steps L_b - 1 down to T - k, so the final
\* reverse state of b is its state right after step 0; and the reverse output
\* row of (t, b) sits at the packed position of the forward output row of
\* (t, b).
C8_ReverseMirrorsForward ==
  (Stepped /\ cfg.bidirectional) =>
    LET bs == input.batch_sizes
        n == Len(bs)
        s == rec[2]
        tlow == n - s.k
    IN /\ Len(s.hidden) = (IF s.k = 0 THEN bs[n] ELSE bs[tlow + 1])
       /\ \A b \in 0..(Len(s.hidden) - 1) :
            LET row == s.hidden[b + 1]
                len == ElemLen(bs, b)
            IN /\ row.h0 = InitialRow(input.hidden_state, 2, b).h0
               /\ row.c0 = InitialRow(input.hidden_state, 2, b).c0
               /\ StepsOfCell(row, 2)
               /\ Xs(row) = [i \in 1..Max(len - tlow, 0) |-> Offset(bs, len - i) + b]
       /\ (pc = "stepping" /\ lastStep.cell = 2) => lastStep.width = bs[tlow + 1]
       /\ result.kind = "returned" =>
            /\ \A b \in 0..(bs[1] - 1) :
                 /\ result.next_hidden[1][2][b + 1] = Block("h", s.hidden[b + 1])
                 /\ result.next_hidden[2][2][b + 1] = Block("c", s.hidden[b + 1])
                 /\ Len(s.hidden[b + 1].steps) = ElemLen(bs, b)
                 /\ s.hidden[b + 1].steps[ElemLen(bs, b)].x = b
            /\ \A t \in 0..(n - 1) : \A b \in 0..(bs[t + 1] - 1) :
                 LET blocks == result.output.data[Offset(bs, t) + b + 1]
                 IN /\ Xs(blocks[1].v) = [i \in 1..(t + 1) |-> Offset(bs, i - 1) + b]
                    /\ Xs(blocks[2].v) =
                         [i \in 1..(ElemLen(bs, b) - t) |->
                            Offset(bs, ElemLen(bs, b) - i) + b]
                    /\ blocks[2].v.h0 = InitialRow(input.hidden_state, 2, b).h0

\* C8 witness: a bidirectional call over lengths [3,2,1] with a caller's
\* initial state has returned.
C8_Witness ==
  /\ pc = "done"
  /\ cfg.bidirectional
  /\ input.batch_sizes = <<3, 2, 1>>
  /\ input.hidden_state = "given"
  /\ Xs(result.next_hidden[1][2][2].v) = <<4, 1>>

\* The phases a call may move between: UNINITIALIZED (no call in
\* progress), MASKS_REFRESHED, STEPPING, REASSEMBLED, DONE.
PhaseOrder ==
  { <<"idle", "masks_refreshed">>, <<"idle", "raised">>,
    <<"masks_refreshed", "stepping">>, <<"masks_refreshed", "raised">>,
    <<"stepping", "stepping">>, <<"stepping", "reassembled">>,
    <<"reassembled", "done">>,
    <<"idle", "idle">>, <<"idle", "cell_returned">>, <<"done", "idle">>,
    <<"raised", "idle">>, <<"cell_returned", "idle">> }

\* C9: a call of LSTM.forward moves through its phases in order.  On entry
\* the masks of every direction's cell are set afresh for
\* max_batch_size = batch_sizes[0], so no step runs on masks left by an
\* earlier call; the masks do not change while the call steps; the cells are
\* stepped only in the stepping phase, the output is reassembled only when
\* every direction has done all its steps, and nothing is returned before
\* that.
C9_PhasesInOrder ==
  [][/\ <<pc, pc'>> \in PhaseOrder
     /\ (pc = "idle" /\ pc' = "masks_refreshed") =>
          \A j \in Cells :
            \E seed \in Seeds :
              masks'[j] = MaskPair(set_dropout_masks(cfg, training,
                                                     input'.batch_sizes[1], seed,
                                                     2 * (j - 1)))
     /\ InCall => masks' = masks
     /\ rec' # rec => (pc' = "stepping" \/ pc = "done" \/ pc = "raised")
     /\ pc' = "reassembled" => \A j \in Cells : rec[j].k = Len(input.batch_sizes)
     /\ result'.kind = "returned" => (pc = "reassembled" /\ pc' = "done")
     /\ (InCall /\ pc' # "done") => result'.kind # "returned"]_vars

\* C9 witness: a bidirectional training-mode call over a shrinking batch has
\* returned, both cells still holding the masks set for batch_sizes[0].
C9_Witness ==
  /\ pc = "done"
  /\ cfg.bidirectional
  /\ training
  /\ cfg.dropout = 50
  /\ input.batch_sizes = <<3, 1>>
  /\ \A j \in Cells : masks[j].h_dropout_mask.batch = 3

RECURSIVE ForwardAlone(_)
\* The forward pass run on its own for k steps.
ForwardAlone(k) ==
  IF k = 0
  THEN VariableRecurrent_start(input.batch_sizes,
                               InitialHidden(input.hidden_state, 1,
                                             input.batch_sizes[1]))
  ELSE VariableRecurrent_step(ForwardAlone(k - 1), input.batch_sizes, 1, masks[1])

RECURSIVE ReverseAlone(_)
\* The reverse pass run on its own for k steps.
ReverseAlone(k) ==
  IF k = 0
  THEN VariableRecurrentReverse_start(input.batch_sizes,
                                      InitialHidden(input.hidden_state, 2,
                                                    input.batch_sizes[1]))
  ELSE VariableRecurrentReverse_step(ReverseAlone(k - 1), input.batch_sizes, 2,
                                     masks[2])

\* C10: in a bidirectional call the two passes share no mutable state: in
\* whatever order their steps are interleaved, each pass's state after its
\* own k steps is what that pass yields run alone, and the packed output and
\* the final state are those of the forward pass run to its end followed by
\* the reverse pass.
C10_PassesIndependent ==
  (Stepped /\ cfg.bidirectional) =>
    /\ rec[1] = ForwardAlone(rec[1].k)
    /\ rec[2] = ReverseAlone(rec[2].k)
    /\ result.kind \in {"local", "returned"} =>
         LET n == Len(input.batch_sizes)
             seq == StackedRNN_collect(<<VariableRecurrent_finish(ForwardAlone(n)),
                                         VariableRecurrentReverse_finish(ReverseAlone(n))>>)
         IN /\ result.next_hidden = seq.next_hidden
            /\ (IF result.kind = "local" THEN result.output
                ELSE result.output.data) = seq.output

\* C10 witness: the reverse pass has taken steps while the forward pass is
\* under way.
C10_Witness ==
  /\ pc = "stepping"
  /\ cfg.bidirectional
  /\ training
  /\ cfg.dropout = 50
  /\ rec[2].k = 2
  /\ rec[1].k = 1
  /\ input.batch_sizes = <<3, 2, 1>>

====
